---- MODULE Spec2Model ----
(***************************************************************************)
(* HyprAI daemon: the action dispatcher (daemon/core/action_dispatcher.py), *)
(* the configuration it reads (daemon/core/config_manager.py) and the       *)
(* command history it writes (daemon/core/context_engine.py).               *)
(*                                                                          *)
(* Python values are modelled as follows.  A dict is a record.  str(x) is   *)
(* the record [repr |-> x]; an exception is the record [exc |-> name]; an   *)
(* error message is the tuple of the pieces its (f-)string is made of.      *)
(* The value a call of execute_action_plan yields is a record tagged with   *)
(* its Python type: [kind |-> "list", value |-> <<...>>] for a list,        *)
(* [kind |-> "dict", value |-> d] for a dict, [kind |-> "raise", exc |-> e] *)
(* for an exception that leaves the call.                                   *)
(***************************************************************************)
EXTENDS Integers, Sequences, FiniteSets, TLC

\* Longest action list of a plan.
MaxPlanLen == 2

----------------------------------------------------------------------------
\* Inputs: actions, plans, configuration files, installed tools.

\* dict.get(key, default)
Get(d, key, default) == IF key \in DOMAIN d THEN d[key] ELSE default

\* A dict without entries.
EmptyDict == [k \in {} |-> TRUE]

\* Truthiness of an optional string parameter (None and "" are falsy).
Truthy(s) == s # "None" /\ s # ""

\* str(x)
Str(x) == [repr |-> x]

\* Actions a plan may hold.
ActionPool ==
  { [type |-> "shell",      params |-> [command |-> "ls"]],
    [type |-> "shell",      params |-> [timeout |-> 5]],
    [type |-> "window",     params |-> [action |-> "focus", target |-> "kitty"]],
    [type |-> "window",     params |-> [action |-> "move", target |-> "kitty"]],
    [type |-> "response",   params |-> [text |-> "done"]],
    [type |-> "bogus"],
    [type |-> "keyboard",   params |-> [keys |-> "super+q"]],
    [type |-> "keyboard",   params |-> [text |-> "hi"]],
    [type |-> "mouse",      params |-> [action |-> "click"]],
    [type |-> "mouse",      params |-> [action |-> "scroll"]],
    [type |-> "hyprctl",    params |-> [command |-> "dispatch workspace 2"]],
    [type |-> "screenshot", params |-> [region |-> "0,0 10x10"]],
    [type |-> "file",       params |-> [operation |-> "write", path |-> "~/f", content |-> "x"]],
    [type |-> "file",       params |-> [operation |-> "append", path |-> "~/f", content |-> "x"]],
    [type |-> "file",       params |-> [operation |-> "read", path |-> "~/f"]] }

ActionLists == UNION { [1..n -> ActionPool] : n \in 0..MaxPlanLen }

\* Values handed to execute_action_plan: a string, None, a dict without
\* "actions", a dict with "actions".
Plans ==
  { [kind |-> "str", value |-> "ls"],
    [kind |-> "None"],
    [kind |-> "dict", explanation |-> "no plan"] }
  \cup { [kind |-> "dict", actions |-> s] : s \in ActionLists }

\* Contents of config.ini, section [automation]: each key set or missing.
ConfigValues == {"true", "false", "unset"}
ConfigFiles == [enable_shell : ConfigValues, enable_file_ops : {"true", "false"}]

\* Tools found on PATH when the daemon starts.
ToolSets == { {}, {"wtype", "wlrctl", "grim", "hyprctl"} }

\* Exit codes a subprocess may end with.
ReturnCodes == {0, 1}

VARIABLES
  config,      \* ConfigManager.config, section [automation]
  tools,       \* executables on PATH
  plan,        \* argument of execute_action_plan
  pc,          \* position in execute_action_plan / _execute_single_action
  idx,         \* position of the loop over plan["actions"]
  results,     \* the local list `results`
  ret,         \* what execute_action_plan yielded
  hres,        \* `result` (handler returned) or `e` (exception caught)
  history,     \* rows of table command_history, in insertion order
  procs,       \* subprocesses spawned, in order, each with its state
  fs,          \* the file system: path -> contents
  calls,       \* handler invocations made, in order
  outcomes,    \* what each invoked handler did (returned value or raised)
  storeFaults  \* number of store_command calls that raised

\* The store's clock and the reader of command_history (context_engine.py).
VARIABLES
  clock,       \* CURRENT_TIMESTAMP of the store, in seconds
  recent       \* the latest _get_recent_commands call: its limit and its rows

storeVars == <<clock, recent>>

\* The snapshot builder (context_engine.py).
VARIABLES
  system_state,       \* table system_state, row "current_state"
  desktop,            \* what the compositor would report now
  upd,                \* locals of each running _update_system_state call
  bpc,                \* position in build_full_context
  bctx,               \* the local dict `context`
  bret,               \* what build_full_context yielded
  include_screenshot  \* argument of build_full_context

snapVars == <<system_state, desktop, upd, bpc, bctx, bret, include_screenshot>>

\* The event tailer (hyprland_monitor.py).
VARIABLES
  signature,   \* HYPRLAND_INSTANCE_SIGNATURE is set
  tpc,         \* position in monitor_events
  event,       \* the event line being handled
  warned,      \* "event monitoring disabled" warnings logged
  conns,       \* connection attempts made
  waited       \* a backoff sleep was made since the last connection attempt

tailVars == <<signature, tpc, event, warned, conns, waited>>

\* The orchestrator and the reasoning gateway (main.py, gemini_client.py).
VARIABLES
  running,        \* HyprAIDaemon.running
  qpc,            \* position in process_user_query
  response,       \* what GeminiClient.process_query yielded
  upstream,       \* how the reasoning service call ended
  qres,           \* what process_user_query yielded
  served,         \* requests finished
  conversations   \* rows of table conversations

queryVars == <<running, qpc, response, upstream, qres, served, conversations>>

\* Which _update_system_state call supplied each field of the stored row.
VARIABLES
  origin

\* Shutdown (main.py).
VARIABLES
  spc,      \* position in HyprAIDaemon.shutdown
  closed    \* the sqlite connection has been closed

stopVars == <<spc, closed>>

\* Requests served concurrently by the web server's event loop.
VARIABLES
  turn,     \* the request whose coroutine the loop is running, 0 for none
  flight,   \* each request's execute_action_plan call: plan, position, index
  log       \* handler invocations and store accesses, in the order they happen

concVars == <<turn, flight, log>>

restVars == <<origin, stopVars, concVars>>

\* The dispatcher's variables.
dispVars == <<config, tools, plan, pc, idx, results, ret, hres, history, procs,
              fs, calls, outcomes, storeFaults>>

vars == <<dispVars, storeVars, snapVars, tailVars, queryVars, restVars>>

\* What no step of the dispatcher writes: its inputs, and the variables of
\* the other components.
cfgVars == <<config, tools, plan, storeVars, snapVars, tailVars, queryVars, restVars>>

----------------------------------------------------------------------------
\* Values of the program.

\* A handler returned v / raised exception e.
Returned(v) == [raised |-> FALSE, value |-> v]
Raised(e) == [raised |-> TRUE, value |-> [exc |-> e]]

\* No handler outcome pending.
NoOutcome == [raised |-> FALSE, value |-> [none |-> TRUE]]

\* execute_action_plan has not yielded yet.
NotReturned == [kind |-> "pending"]

\* What subprocess.run(...) gives the handlers that report it.
RunResult(rc) == [rc |-> rc]

\* ConfigManager.get_bool for section [automation]: configparser's
\* getboolean with a fallback for a missing key.
get_bool(key, fallback) ==
  IF config[key] = "unset" THEN fallback ELSE config[key] = "true"

\* ActionDispatcher._which, and the has_* attributes set from it.
which(cmd) == cmd \in tools

\* Path(path).expanduser()
expanduser(path) == IF path = "~/f" THEN "/home/user/f" ELSE path

\* Files the actions can name.
Paths == { expanduser(a.params.path) : a \in { b \in ActionPool : b.type = "file" } }

\* A path without a file / a file holding the chunks written to it.
NoFile == [exists |-> FALSE, data |-> <<>>]
File(data) == [exists |-> TRUE, data |-> data]

\* `content or ""` as the sequence of chunks written.
Chunks(content) == IF Truthy(content) THEN <<content>> ELSE <<>>

\* The handler table of _execute_single_action.
Handlers == {"keyboard", "mouse", "shell", "hyprctl", "window", "screenshot", "file"}

\* handler(**params) cannot bind a required parameter: TypeError.
MissingParam(params, required) == \E k \in required : k \notin DOMAIN params

\* The three shapes _execute_single_action returns.
UnknownTypeResult(t) == [error |-> <<"unknown action type: ", t>>]
SuccessResult(result) == [success |-> TRUE, result |-> result]
FailureResult(e) == [success |-> FALSE, error |-> Str(e)]

\* The row store_command inserts into command_history.  Its callers pass
\* strings, which its own str(output) leaves as they are.
store_command(command, output, success) ==
  [command |-> command, output |-> output, success |-> IF success THEN 1 ELSE 0]

\* A subprocess: started by subprocess.run ("run") or by
\* asyncio.create_subprocess_shell ("shell").
Proc(via, cmd, state) == [via |-> via, cmd |-> cmd, state |-> state]

----------------------------------------------------------------------------
\* The handlers that call subprocess.run or touch files, as the effect of one
\* call: out (returned or raised), run (commands spawned), fs (files after).

Effect(out, run, files) == [out |-> out, run |-> run, fs |-> files]

keyboard_input(params, rc) ==
  LET text == Get(params, "text", "None")
      keys == Get(params, "keys", "None")
  IN IF Truthy(text)
       THEN IF which("wtype")
              THEN Effect(Returned(RunResult(rc)), <<"wtype">>, fs)
              ELSE Effect(Returned([dry_run |-> TRUE, text |-> text]), <<>>, fs)
       ELSE IF Truthy(keys)
              THEN IF which("wtype")
                     THEN Effect(Returned(RunResult(rc)), <<"wtype">>, fs)
                     ELSE Effect(Returned([error |-> <<"no wtype installed to emit keys">>]), <<>>, fs)
              ELSE Effect(Returned([error |-> <<"no keys or text provided">>]), <<>>, fs)

mouse_action(params, rc) ==
  LET action == Get(params, "action", "move")
  IN IF ~which("wlrctl")
       THEN Effect(Returned([error |-> <<"no wlrctl installed for mouse control">>]), <<>>, fs)
       ELSE IF action \in {"move", "click"}
              THEN Effect(Returned(RunResult(rc)), <<"wlrctl">>, fs)
              ELSE Effect(Returned([error |-> <<"unknown mouse action ", action>>]), <<>>, fs)

hyprctl_command(params, rc) ==
  IF MissingParam(params, {"command"})
    THEN Effect(Raised("TypeError"), <<>>, fs)
    ELSE IF which("hyprctl")
           THEN Effect(Returned(RunResult(rc)), <<"hyprctl">>, fs)
           ELSE Effect(Raised("FileNotFoundError"), <<>>, fs)

\* The table `mapping` of window_control for a target.
mapping(target) ==
  [ focus      |-> <<"dispatch focuswindow ", target>>,
    close      |-> <<"dispatch closewindow ", target>>,
    fullscreen |-> <<"dispatch fullscreen">> ]

window_control(params, rc) ==
  IF MissingParam(params, {"action"})
    THEN Effect(Raised("TypeError"), <<>>, fs)
    ELSE LET cmds == mapping(Get(params, "target", "None"))
         IN IF params.action \in DOMAIN cmds
              THEN hyprctl_command([command |-> cmds[params.action]], rc)
              ELSE Effect(Returned([error |-> <<"unsupported window action ", params.action>>]), <<>>, fs)

take_screenshot(params, rc) ==
  IF ~which("grim")
    THEN Effect(Returned([error |-> <<"grim not available">>]), <<>>, fs)
    ELSE Effect(Returned([size |-> IF rc = 0 THEN 1 ELSE 0, rc |-> rc]), <<"grim">>, fs)

file_operation(params) ==
  IF MissingParam(params, {"operation", "path"})
    THEN Effect(Raised("TypeError"), <<>>, fs)
    ELSE LET p == expanduser(params.path)
             content == Get(params, "content", "None")
         IN CASE params.operation = "read" ->
                   IF fs[p].exists
                     THEN Effect(Returned([content |-> fs[p].data]), <<>>, fs)
                     ELSE Effect(Raised("FileNotFoundError"), <<>>, fs)
              [] params.operation = "write" ->
                   Effect(Returned([success |-> TRUE]), <<>>,
                          [fs EXCEPT ![p] = File(Chunks(content))])
              [] params.operation = "append" ->
                   Effect(Returned([success |-> TRUE]), <<>>,
                          [fs EXCEPT ![p] = File(fs[p].data \o Chunks(content))])
              [] OTHER ->
                   Effect(Returned([error |-> <<"unknown file op">>]), <<>>, fs)

----------------------------------------------------------------------------
\* The components at rest: what their variables hold while a specification
\* runs another component alone.

\* The callers of _update_system_state: build_full_context and the tailer's
\* _handle_event.
Callers == {"build", "tailer"}

\* No _update_system_state call of this caller is running.
IdleUpdate == [pc |-> "idle", state |-> EmptyDict, seen |-> EmptyDict]

\* No row "current_state".
NoRow == [stored |-> FALSE]

SnapAtRest ==
  /\ system_state = NoRow
  /\ desktop = 0
  /\ upd = [c \in Callers |-> IdleUpdate]
  /\ bpc = "idle"
  /\ bctx = EmptyDict
  /\ bret = NotReturned
  /\ include_screenshot = FALSE

\* No event line in hand.
NoEvent == [line |-> "none"]

TailAtRest ==
  /\ signature = FALSE
  /\ tpc = "off"
  /\ event = NoEvent
  /\ warned = 0
  /\ conns = 0
  /\ waited = FALSE

QueryAtRest ==
  /\ running = TRUE
  /\ qpc = "idle"
  /\ response = NotReturned
  /\ upstream = "none"
  /\ qres = NotReturned
  /\ served = 0
  /\ conversations = <<>>

\* The requests the web server handles at a time.
Requests == {1, 2}

\* No execute_action_plan call of this request.
NoFlight == [pc |-> "idle", idx |-> 0, plan |-> <<>>]

\* No shutdown, the connection open, no concurrent requests.
RestAtRest ==
  /\ origin = EmptyDict
  /\ spc = "none"
  /\ closed = FALSE
  /\ turn = 0
  /\ flight = [r \in Requests |-> NoFlight]
  /\ log = <<>>

----------------------------------------------------------------------------
\* The command history as the store keeps and reads it
\* (ContextEngine.store_command, ContextEngine._get_recent_commands).

\* Rows the history may hold, and the seconds the clock may show.
MaxRows == 3
MaxClock == 2

\* Largest limit a reader asks for.
MaxLimit == 2

\* No _get_recent_commands call has been made.
NoQuery == [asked |-> FALSE]

\* The clock stands at 0 and nothing has been read.
StoreAtRest == clock = 0 /\ recent = NoQuery

\* The columns the table fills in itself: id INTEGER PRIMARY KEY
\* AUTOINCREMENT and timestamp DEFAULT CURRENT_TIMESTAMP.
Inserted(row, id, now) == row @@ [id |-> id, timestamp |-> now]

\* A row as _get_recent_commands hands it out.
RecentRow(r) == [cmd |-> r.command, output |-> r.output, success |-> r.success # 0]

\* ORDER BY timestamp DESC: the orders of the row positions of table `rows`
\* in which no row comes before a row with a later timestamp.  Rows with
\* equal timestamps may come in either order.
OrderByTimestampDesc(rows) ==
  { o \in [1..Len(rows) -> 1..Len(rows)] :
      /\ \A i, j \in 1..Len(rows) : i # j => o[i] # o[j]
      /\ \A i, j \in 1..Len(rows) :
           i < j => rows[o[i]].timestamp >= rows[o[j]].timestamp }

\* LIMIT ?
Limit(seq, limit) == SubSeq(seq, 1, IF Len(seq) < limit THEN Len(seq) ELSE limit)

\* What store_command callers pass in the store's own specification.
StoredCommands == { store_command(Str(a), Str(o), ok) :
                      a \in {"a", "b"}, o \in {"out"}, ok \in BOOLEAN }

\* store_command(command, output, success): INSERT and commit.
StoreCommand ==
  /\ Len(history) < MaxRows
  /\ \E row \in StoredCommands :
       history' = Append(history, Inserted(row, Len(history) + 1, clock))
  /\ UNCHANGED <<config, tools, plan, pc, idx, results, ret, hres, procs, fs,
                 calls, outcomes, storeFaults, storeVars, snapVars, tailVars, queryVars, restVars>>

\* A second passes.
Tick ==
  /\ clock < MaxClock
  /\ clock' = clock + 1
  /\ UNCHANGED <<dispVars, recent, snapVars, tailVars, queryVars, restVars>>

\* _get_recent_commands(limit)
GetRecentCommands ==
  /\ \E limit \in 1..MaxLimit, o \in OrderByTimestampDesc(history) :
       recent' = [asked |-> TRUE, limit |-> limit, hlen |-> Len(history),
                  rows |-> Limit([i \in 1..Len(history) |-> RecentRow(history[o[i]])], limit)]
  /\ UNCHANGED <<dispVars, clock, snapVars, tailVars, queryVars, restVars>>

\* The store with its writers and readers, nothing else running.
StoreInit ==
  /\ config = [enable_shell |-> "unset", enable_file_ops |-> "false"]
  /\ tools = {}
  /\ plan = [kind |-> "None"]
  /\ pc = "idle"
  /\ idx = 0
  /\ results = <<>>
  /\ ret = NotReturned
  /\ hres = NoOutcome
  /\ history = <<>>
  /\ procs = <<>>
  /\ fs = [p \in Paths |-> NoFile]
  /\ calls = <<>>
  /\ outcomes = <<>>
  /\ storeFaults = 0
  /\ StoreAtRest
  /\ SnapAtRest
  /\ TailAtRest
  /\ QueryAtRest
  /\ RestAtRest

StoreNext == StoreCommand \/ Tick \/ GetRecentCommands

SpecStore == StoreInit /\ [][StoreNext]_vars

----------------------------------------------------------------------------
\* The snapshot builder: _update_system_state and build_full_context.

\* How often the desktop changes in a behaviour.
MaxDesktop == 1

\* The dispatcher constructed and no plan handed to it.
DispatcherIdle ==
  /\ plan = [kind |-> "None"]
  /\ pc = "idle"
  /\ idx = 0
  /\ results = <<>>
  /\ ret = NotReturned
  /\ hres = NoOutcome
  /\ history = <<>>
  /\ procs = <<>>
  /\ fs = [p \in Paths |-> NoFile]
  /\ calls = <<>>
  /\ outcomes = <<>>
  /\ storeFaults = 0

\* The keys _update_system_state fills in.
Fields == {"monitors", "active_window", "clients"}

\* The literal each except clause and each empty stdout falls back to:
\* {} for monitors and active_window, [] for clients.
Default(field) == IF field = "clients" THEN [json |-> <<"[]">>] ELSE [json |-> <<"{}">>]

\* json.loads(out.stdout) of `hyprctl <field> -j` run while the desktop is
\* in generation gen.
Reported(field, gen) == [json |-> <<field, gen>>]

\* How one subprocess.run + json.loads ends: a parsed document, an empty
\* stdout, subprocess.TimeoutExpired, or another exception (hyprctl gone,
\* output that is no JSON).
QueryOutcomes == {"ok", "empty", "timeout", "error"}

\* d[key] = v
Set(d, key, v) == [k \in DOMAIN d \cup {key} |-> IF k = key THEN v ELSE d[k]]

\* One try block of _update_system_state when all three queries share a
\* single try and its handler resets the dict: not what the code does.
sub_query_shared_try(state, field, outcome, gen) ==
  IF outcome = "ok"
  THEN Set(state, field, Reported(field, gen))
  ELSE [k \in DOMAIN state \cup {field} |-> Default(k)]

\* One try block of _update_system_state: state[field] is the parsed
\* output, or the default when stdout is empty or anything was raised.
sub_query(state, field, outcome, gen) ==
  Set(state, field, IF outcome = "ok" THEN Reported(field, gen) ELSE Default(field))

\* json.dumps(state) as stored in column value.
Dumps(state) == [stored |-> TRUE, value |-> [dumps |-> state]]

\* state = {}; hyprctl = shutil.which("hyprctl"); the else branch only logs
\* at debug level.
UpdateStart(c) ==
  /\ upd[c].pc = "start"
  /\ upd' = [upd EXCEPT ![c] = [pc    |-> IF which("hyprctl") THEN "monitors" ELSE "upsert",
                                state |-> EmptyDict,
                                seen  |-> EmptyDict]]

\* The try block for `field`, then on to position `next`.  seen records how
\* the query ended and which desktop it saw.
SubQuery(c, field, next) ==
  /\ upd[c].pc = field
  /\ \E o \in QueryOutcomes :
       upd' = [upd EXCEPT ![c] =
                 [pc    |-> next,
                  state |-> sub_query(upd[c].state, field, o, desktop),
                  seen  |-> Set(upd[c].seen, field, [outcome |-> o, gen |-> desktop])]]

\* The other caller.
Other(c) == CHOOSE o \in Callers : o # c

\* A dict `state` kept on the ContextEngine and shared by the calls in
\* progress: what one call stores holds the fields the other has set since.
SharedState(c) ==
  LET mine   == upd[c].state
      theirs == IF upd[Other(c)].pc \in {"idle", "start"} THEN EmptyDict ELSE upd[Other(c)].state
  IN [value  |-> [f \in DOMAIN mine \cup DOMAIN theirs |->
                    IF f \in DOMAIN theirs THEN theirs[f] ELSE mine[f]],
      origin |-> [f \in DOMAIN mine \cup DOMAIN theirs |->
                    IF f \in DOMAIN theirs THEN Other(c) ELSE c]]

\* state = {} is a local of the call: the dict it stores holds the fields
\* this call has set and no others.
LocalState(c) ==
  [value |-> upd[c].state, origin |-> [f \in DOMAIN upd[c].state |-> c]]

\* _upsert_system_state("current_state", json.dumps(state)); return state.
\* The call is outside every try: a failing INSERT OR REPLACE or commit
\* leaves _update_system_state as an exception.
Upsert(c) ==
  /\ upd[c].pc = "upsert"
  /\ \/ /\ system_state' = Dumps(LocalState(c).value)
        /\ origin' = LocalState(c).origin
        /\ upd' = [upd EXCEPT ![c].pc = "returned"]
     \/ /\ upd' = [upd EXCEPT ![c].pc = "raised"]
        /\ UNCHANGED <<system_state, origin>>

\* A step of a running _update_system_state call.
UpdateSystemState ==
  /\ \E c \in Callers :
       \/ UpdateStart(c) /\ UNCHANGED <<system_state, origin>>
       \/ SubQuery(c, "monitors", "active_window") /\ UNCHANGED <<system_state, origin>>
       \/ SubQuery(c, "active_window", "clients") /\ UNCHANGED <<system_state, origin>>
       \/ SubQuery(c, "clients", "upsert") /\ UNCHANGED <<system_state, origin>>
       \/ Upsert(c)
  /\ UNCHANGED <<dispVars, storeVars, desktop, bpc, bctx, bret, include_screenshot,
                 tailVars, queryVars, stopVars, concVars>>

\* The user moves focus, opens a window, plugs a monitor.
DesktopChanges ==
  /\ desktop < MaxDesktop
  /\ desktop' = desktop + 1
  /\ UNCHANGED <<dispVars, storeVars, system_state, upd, bpc, bctx, bret,
                 include_screenshot, tailVars, queryVars, restVars>>

\* LIMIT arguments of build_full_context's two reads.
RecentCommandsLimit == 10
RecentConversationsLimit == 5

\* _get_recent_commands(limit): every list the SELECT may give.
RecentCommands(limit) ==
  { Limit([i \in 1..Len(history) |-> RecentRow(history[o[i]])], limit) :
      o \in OrderByTimestampDesc(history) }

\* One row of _get_recent_conversations.
ConversationRow(r) == [user |-> r.user_message, ai |-> r.ai_response]

\* _get_recent_conversations(limit): every list the SELECT may give.
RecentConversations(limit) ==
  { Limit([i \in 1..Len(conversations) |-> ConversationRow(conversations[o[i]])], limit) :
      o \in OrderByTimestampDesc(conversations) }

\* None
None == [none |-> TRUE]

\* build_full_context(include_screenshot) is called: the dict literal
\* starts with awaiting _async_wrap(_update_system_state).
BuildEnter(s) ==
  /\ include_screenshot' = s
  /\ bpc' = "update"
  /\ upd' = [upd EXCEPT !["build"].pc = "start"]
  /\ bctx' = EmptyDict
  /\ bret' = NotReturned

\* build_full_context called on its own.
BuildCall ==
  /\ bpc = "idle"
  /\ \E s \in BOOLEAN : BuildEnter(s)
  /\ UNCHANGED <<dispVars, storeVars, system_state, desktop, tailVars, queryVars, restVars>>

\* The awaited _update_system_state is over: its return value becomes
\* "system_state", or its exception leaves build_full_context.
BuildUpdated ==
  /\ bpc = "update"
  /\ \/ /\ upd["build"].pc = "returned"
        /\ bctx' = [system_state |-> upd["build"].state]
        /\ bpc' = "recent"
        /\ UNCHANGED bret
     \/ /\ upd["build"].pc = "raised"
        /\ bret' = Raised("sqlite3.Error")
        /\ bpc' = "done"
        /\ UNCHANGED bctx
  /\ upd' = [upd EXCEPT !["build"].pc = "idle"]
  /\ UNCHANGED <<dispVars, storeVars, system_state, desktop, include_screenshot,
                 tailVars, queryVars, restVars>>

\* "recent_commands": self._get_recent_commands(10),
\* "conversation_history": self._get_recent_conversations(5): two SELECTs
\* with no try around them.
BuildRecent ==
  /\ bpc = "recent"
  /\ \/ /\ \E rc \in RecentCommands(RecentCommandsLimit),
              cv \in RecentConversations(RecentConversationsLimit) :
             bctx' = [system_state |-> bctx.system_state,
                      recent_commands |-> rc,
                      conversation_history |-> cv]
        /\ bpc' = IF include_screenshot THEN "screenshot" ELSE "return"
        /\ UNCHANGED bret
     \/ /\ bret' = Raised("sqlite3.Error")
        /\ bpc' = "done"
        /\ UNCHANGED bctx
  /\ UNCHANGED <<dispVars, storeVars, system_state, desktop, upd, include_screenshot,
                 tailVars, queryVars, restVars>>

\* _take_screenshot: grim's output base64-encoded, or None when grim exits
\* non-zero, times out or cannot be started.
Screenshots == {None} \cup (IF which("grim") THEN {[b64 |-> desktop]} ELSE {})

\* if include_screenshot: context["screenshot"] = await _async_wrap(_take_screenshot)
BuildScreenshot ==
  /\ bpc = "screenshot"
  /\ \E ss \in Screenshots : bctx' = Set(bctx, "screenshot", ss)
  /\ bpc' = "return"
  /\ UNCHANGED <<dispVars, storeVars, system_state, desktop, upd, bret,
                 include_screenshot, tailVars, queryVars, restVars>>

\* return context
BuildReturn ==
  /\ bpc = "return"
  /\ bret' = Returned(bctx)
  /\ bpc' = "done"
  /\ UNCHANGED <<dispVars, storeVars, system_state, desktop, upd, bctx,
                 include_screenshot, tailVars, queryVars, restVars>>

\* One build_full_context call on a desktop that may change meanwhile.
SnapInit ==
  /\ config = [enable_shell |-> "unset", enable_file_ops |-> "false"]
  /\ tools \in ToolSets
  /\ DispatcherIdle
  /\ StoreAtRest
  /\ SnapAtRest
  /\ TailAtRest
  /\ QueryAtRest
  /\ RestAtRest

SnapNext ==
  \/ BuildCall
  \/ UpdateSystemState
  \/ BuildUpdated
  \/ BuildRecent
  \/ BuildScreenshot
  \/ BuildReturn
  \/ DesktopChanges

SpecSnap == SnapInit /\ [][SnapNext]_vars

----------------------------------------------------------------------------
\* The event tailer: HyprlandMonitor.monitor_events and _handle_event.

\* Connection attempts counted; further attempts leave the count there.
MaxConns == 2

\* A line read from the event socket, decoded and stripped: whether it holds
\* '>>' and what stands before the first '>>'.
Line(sep, head) == [sep |-> sep, head |-> head]

EventLines == { Line(TRUE, "activewindow"), Line(TRUE, "workspace"),
                Line(TRUE, "focusedmon"), Line(TRUE, "openwindow"),
                Line(FALSE, "garbage") }

\* ['activewindow', 'workspace', 'focusedmon']
RebuildEvents == {"activewindow", "workspace", "focusedmon"}

\* monitor_events without its first three lines: the loop is entered
\* whether or not a signature is set.
TailStartUnguarded ==
  /\ tpc = "start"
  /\ tpc' = "connect"
  /\ UNCHANGED <<dispVars, storeVars, snapVars, signature, event, warned, conns,
                 waited, queryVars, restVars>>

\* if not self.signature: logger.warning(...); return
\* otherwise the outer while True is entered.
TailStart ==
  /\ tpc = "start"
  /\ IF signature
     THEN tpc' = "connect" /\ UNCHANGED warned
     ELSE tpc' = "disabled" /\ warned' = warned + 1
  /\ UNCHANGED <<dispVars, storeVars, snapVars, signature, event, conns,
                 waited, queryVars, restVars>>

\* await asyncio.open_unix_connection(socket_path): connected, or an
\* exception caught by the outer except.
Connect ==
  /\ tpc = "connect"
  /\ conns' = IF conns < MaxConns THEN conns + 1 ELSE conns
  /\ waited' = FALSE
  /\ \/ tpc' = "read"
     \/ tpc' = "backoff"
  /\ UNCHANGED <<dispVars, storeVars, snapVars, signature, event, warned, queryVars, restVars>>

\* data = await reader.readline(): a line, end of stream (`break` leaves the
\* inner loop and the outer loop starts over at once), or an exception of
\* readline or decode.
ReadLine ==
  /\ tpc = "read"
  /\ \/ \E l \in EventLines : event' = l /\ tpc' = "handle"
     \/ tpc' = "connect" /\ UNCHANGED event
     \/ tpc' = "backoff" /\ UNCHANGED event
  /\ UNCHANGED <<dispVars, storeVars, snapVars, signature, warned, conns, waited,
                 queryVars, restVars>>

\* _handle_event(event): lines with '>>' whose type is one of the three
\* await self.context._update_system_state(); all others do nothing.  The
\* line is not looked at again.
HandleEvent ==
  /\ tpc = "handle"
  /\ IF event.sep /\ event.head \in RebuildEvents
     THEN /\ upd' = [upd EXCEPT !["tailer"].pc = "start"]
          /\ tpc' = "rebuild"
     ELSE /\ tpc' = "read"
          /\ UNCHANGED upd
  /\ event' = NoEvent
  /\ UNCHANGED <<dispVars, storeVars, system_state, desktop, bpc, bctx, bret,
                 include_screenshot, signature, warned, conns, waited, queryVars, restVars>>

\* The awaited _update_system_state is over and its frame is gone: back to
\* readline, or its exception reaches the outer except.
Rebuilt ==
  /\ tpc = "rebuild"
  /\ \/ upd["tailer"].pc = "returned" /\ tpc' = "read"
     \/ upd["tailer"].pc = "raised" /\ tpc' = "backoff"
  /\ upd' = [upd EXCEPT !["tailer"] = IdleUpdate]
  /\ UNCHANGED <<dispVars, storeVars, system_state, desktop, bpc, bctx, bret,
                 include_screenshot, signature, event, warned, conns, waited, queryVars, restVars>>

\* An except clause that returns instead of sleeping and looping.
GiveUp ==
  /\ tpc = "backoff"
  /\ tpc' = "exit"
  /\ UNCHANGED <<dispVars, storeVars, snapVars, signature, event, warned, conns,
                 waited, queryVars, restVars>>

\* except Exception: logger.error(...); await asyncio.sleep(5); then the
\* outer loop starts over.
Backoff ==
  /\ tpc = "backoff"
  /\ waited' = TRUE
  /\ tpc' = "connect"
  /\ UNCHANGED <<dispVars, storeVars, snapVars, signature, event, warned, conns,
                 queryVars, restVars>>

\* start() has created the monitor_events task.
TailInit ==
  /\ config = [enable_shell |-> "unset", enable_file_ops |-> "false"]
  /\ tools \in ToolSets
  /\ DispatcherIdle
  /\ StoreAtRest
  /\ SnapAtRest
  /\ signature \in BOOLEAN
  /\ tpc = "start"
  /\ event = NoEvent
  /\ warned = 0
  /\ conns = 0
  /\ waited = FALSE
  /\ QueryAtRest
  /\ RestAtRest

TailNext ==
  \/ TailStart
  \/ Connect
  \/ ReadLine
  \/ HandleEvent
  \/ UpdateSystemState
  \/ Rebuilt
  \/ Backoff
  \/ DesktopChanges

SpecTail == TailInit /\ [][TailNext]_vars

\* The event loop runs every task that can run: a sleep ends, a connection
\* attempt succeeds or fails, a handler and the queries it runs (each under
\* timeout=2) come to an end.  Nothing makes the socket deliver a line.
SpecTailFair ==
  /\ TailInit
  /\ [][TailNext]_vars
  /\ WF_vars(TailStart)
  /\ WF_vars(Connect)
  /\ WF_vars(HandleEvent)
  /\ WF_vars(UpdateSystemState)
  /\ WF_vars(Rebuilt)
  /\ WF_vars(Backoff)

----------------------------------------------------------------------------
\* A request-triggered and a tailer-triggered rebuild at the same time.  The
\* request's _update_system_state runs in an executor thread (_async_wrap),
\* the tailer's on the main event loop: their steps interleave freely.

\* The tailer is streaming under a compositor with hyprctl; a request may
\* come in.  The race lasts while the connection does: the tailer's way
\* back to a connection is SpecTail's matter.
RaceInit ==
  /\ config = [enable_shell |-> "unset", enable_file_ops |-> "false"]
  /\ tools = {"wtype", "wlrctl", "grim", "hyprctl"}
  /\ DispatcherIdle
  /\ StoreAtRest
  /\ SnapAtRest
  /\ signature = TRUE
  /\ tpc = "read"
  /\ event = NoEvent
  /\ warned = 0
  /\ conns = 1
  /\ waited = FALSE
  /\ QueryAtRest
  /\ RestAtRest

RaceNext ==
  \/ BuildCall
  \/ BuildUpdated
  \/ UpdateSystemState
  \/ ReadLine
  \/ HandleEvent
  \/ Rebuilt

SpecRace == RaceInit /\ [][RaceNext]_vars

----------------------------------------------------------------------------
\* HyprAIDaemon.shutdown, with the tailer's task on the event loop.

\* logger.info(...); self.running = False
ShutdownCall ==
  /\ spc = "none"
  /\ running' = FALSE
  /\ spc' = "stop_web"
  /\ UNCHANGED <<dispVars, storeVars, snapVars, tailVars, qpc, response, upstream,
                 qres, served, conversations, origin, closed, concVars>>

\* await self.web_server.stop(): WebServer.stop only logs.
StopWebServer ==
  /\ spc = "stop_web"
  /\ spc' = "close"
  /\ UNCHANGED <<dispVars, storeVars, snapVars, tailVars, queryVars, origin, closed,
                 concVars>>

\* await self.context.close(): ContextEngine defines no close, so the
\* attribute lookup raises AttributeError and shutdown ends with it; the
\* connection stays open.
CloseStore ==
  /\ spc = "close"
  /\ spc' = "raised"
  /\ UNCHANGED <<dispVars, storeVars, snapVars, tailVars, queryVars, origin, closed,
                 concVars>>

\* The daemon started, the tailer's task created, shutdown not yet called.
StopInit == TailInit

StopNext ==
  \/ TailNext
  \/ ShutdownCall
  \/ StopWebServer
  \/ CloseStore

SpecStop == StopInit /\ [][StopNext]_vars

----------------------------------------------------------------------------
\* State after construction, with one call of execute_action_plan pending.

Init ==
  /\ config \in ConfigFiles
  /\ tools \in ToolSets
  /\ plan \in Plans
  /\ pc = "call"
  /\ idx = 0
  /\ results = <<>>
  /\ ret = NotReturned
  /\ hres = NoOutcome
  /\ history = <<>>
  /\ procs = <<>>
  /\ fs = [p \in Paths |-> NoFile]
  /\ calls = <<>>
  /\ outcomes = <<>>
  /\ storeFaults = 0
  /\ StoreAtRest
  /\ SnapAtRest
  /\ TailAtRest
  /\ QueryAtRest
  /\ RestAtRest

\* isinstance(plan, str)
IsStr(x) == x.kind = "str"

\* isinstance(plan, dict) and "actions" in plan
HasActions(x) == x.kind = "dict" /\ "actions" \in DOMAIN x

\* The action the loop is at, its type and its params.
CurAction == plan.actions[idx]
CurType == Get(CurAction, "type", "None")
CurParams == Get(CurAction, "params", EmptyDict)

InLoop == pc = "loop" /\ idx <= Len(plan.actions)

\* The handler of the action at idx is called and comes back with effect eff.
\* A call whose parameters do not bind raises before the handler's body runs.
HandlerDone(eff, bound) ==
  /\ calls' = IF bound THEN Append(calls, [idx |-> idx, type |-> CurType]) ELSE calls
  /\ outcomes' = Append(outcomes, [idx |-> idx, out |-> eff.out])
  /\ procs' = procs \o [i \in 1..Len(eff.run) |-> Proc("run", eff.run[i], "exited")]
  /\ fs' = eff.fs
  /\ hres' = eff.out
  /\ pc' = IF eff.out.raised THEN "except" ELSE "store"
  /\ UNCHANGED <<cfgVars, idx, results, ret, history, storeFaults>>

\* shell_exec hands value v back: to execute_action_plan for a string plan,
\* to _execute_single_action otherwise.
ShellReturns(v) ==
  IF IsStr(plan)
    THEN /\ ret' = [kind |-> "list", value |-> <<v>>]
         /\ pc' = "done"
         /\ outcomes' = Append(outcomes, [idx |-> 0, out |-> Returned(v)])
         /\ UNCHANGED hres
    ELSE /\ hres' = Returned(v)
         /\ pc' = "store"
         /\ outcomes' = Append(outcomes, [idx |-> idx, out |-> Returned(v)])
         /\ UNCHANGED ret

----------------------------------------------------------------------------
\* execute_action_plan

\* PlanString running the string itself, past shell_exec's gate.
PlanStringUngated ==
  /\ pc = "call" /\ IsStr(plan)
  /\ procs' = Append(procs, Proc("shell", plan.value, "running"))
  /\ pc' = "shell_wait"
  /\ calls' = Append(calls, [idx |-> 0, type |-> "shell"])
  /\ UNCHANGED <<cfgVars, idx, results, ret, hres, history, fs, outcomes, storeFaults>>

\* A string plan goes to shell_exec.
PlanString ==
  /\ pc = "call" /\ IsStr(plan)
  /\ pc' = "shell"
  /\ calls' = Append(calls, [idx |-> 0, type |-> "shell"])
  /\ UNCHANGED <<cfgVars, idx, results, ret, hres, history, procs, fs, outcomes, storeFaults>>

\* PlanInvalid with the refused plan written to the command history.
PlanInvalidLogged ==
  /\ pc = "call" /\ ~IsStr(plan) /\ ~HasActions(plan)
  /\ ret' = [kind |-> "dict", value |-> [error |-> <<"invalid plan format">>]]
  /\ history' = Append(history, Inserted(store_command(Str(plan), Str(ret'.value), FALSE),
                                              Len(history) + 1, clock))
  /\ pc' = "done"
  /\ UNCHANGED <<cfgVars, idx, results, hres, procs, fs, calls, outcomes, storeFaults>>

\* Anything else that is no dict with "actions" is refused.
PlanInvalid ==
  /\ pc = "call" /\ ~IsStr(plan) /\ ~HasActions(plan)
  /\ ret' = [kind |-> "dict", value |-> [error |-> <<"invalid plan format">>]]
  /\ pc' = "done"
  /\ UNCHANGED <<cfgVars, idx, results, hres, history, procs, fs, calls, outcomes, storeFaults>>

\* results = [] and the loop starts.
PlanLoop ==
  /\ pc = "call" /\ ~IsStr(plan) /\ HasActions(plan)
  /\ results' = <<>>
  /\ idx' = 1
  /\ pc' = "loop"
  /\ UNCHANGED <<cfgVars, ret, hres, history, procs, fs, calls, outcomes, storeFaults>>

\* The loop is over: return results.
ReturnResults ==
  /\ pc = "loop" /\ idx > Len(plan.actions)
  /\ ret' = [kind |-> "list", value |-> results]
  /\ pc' = "done"
  /\ UNCHANGED <<cfgVars, idx, results, hres, history, procs, fs, calls, outcomes, storeFaults>>

----------------------------------------------------------------------------
\* _execute_single_action

\* No handler for the type: the error dict is the action's result.
UnknownAction ==
  /\ InLoop /\ CurType \notin Handlers
  /\ results' = Append(results, UnknownTypeResult(CurType))
  /\ idx' = idx + 1
  /\ UNCHANGED <<cfgVars, pc, ret, hres, history, procs, fs, calls, outcomes, storeFaults>>

KeyboardInput ==
  /\ InLoop /\ CurType = "keyboard"
  /\ \E rc \in ReturnCodes : HandlerDone(keyboard_input(CurParams, rc), TRUE)

MouseAction ==
  /\ InLoop /\ CurType = "mouse"
  /\ \E rc \in ReturnCodes : HandlerDone(mouse_action(CurParams, rc), TRUE)

HyprctlCommand ==
  /\ InLoop /\ CurType = "hyprctl"
  /\ \E rc \in ReturnCodes :
       HandlerDone(hyprctl_command(CurParams, rc), ~MissingParam(CurParams, {"command"}))

WindowControl ==
  /\ InLoop /\ CurType = "window"
  /\ \E rc \in ReturnCodes :
       HandlerDone(window_control(CurParams, rc), ~MissingParam(CurParams, {"action"}))

TakeScreenshot ==
  /\ InLoop /\ CurType = "screenshot"
  /\ \E rc \in ReturnCodes : HandlerDone(take_screenshot(CurParams, rc), TRUE)

FileOperation ==
  /\ InLoop /\ CurType = "file"
  /\ HandlerDone(file_operation(CurParams), ~MissingParam(CurParams, {"operation", "path"}))

\* The handlers whose subprocess is started with subprocess.run.
RunHandlers == {"keyboard", "mouse", "hyprctl", "window", "screenshot"}

\* The effect of the handler of type t if its subprocess ends with rc.
RunEffect(t, params, rc) ==
  CASE t = "keyboard"   -> keyboard_input(params, rc)
    [] t = "mouse"      -> mouse_action(params, rc)
    [] t = "hyprctl"    -> hyprctl_command(params, rc)
    [] t = "window"     -> window_control(params, rc)
    [] t = "screenshot" -> take_screenshot(params, rc)

\* subprocess.run(cmd, capture_output=True, ...) is given no timeout: when
\* the tool does not exit, the call does not come back, and neither does
\* the handler that made it.
SubprocessHangs ==
  /\ InLoop /\ CurType \in RunHandlers
  /\ LET eff == RunEffect(CurType, CurParams, 0)
     IN /\ eff.run # <<>>
        /\ procs' = procs \o [i \in 1..Len(eff.run) |-> Proc("run", eff.run[i], "running")]
  /\ calls' = Append(calls, [idx |-> idx, type |-> CurType])
  /\ pc' = "blocked"
  /\ UNCHANGED <<cfgVars, idx, results, ret, hres, history, fs, outcomes, storeFaults>>

\* A shell action: shell_exec is entered, or the call fails to bind `command`.
ShellAction ==
  /\ InLoop /\ CurType = "shell"
  /\ IF MissingParam(CurParams, {"command"})
       THEN /\ hres' = Raised("TypeError")
            /\ outcomes' = Append(outcomes, [idx |-> idx, out |-> Raised("TypeError")])
            /\ pc' = "except"
            /\ UNCHANGED calls
       ELSE /\ calls' = Append(calls, [idx |-> idx, type |-> "shell"])
            /\ pc' = "shell"
            /\ UNCHANGED <<hres, outcomes>>
  /\ UNCHANGED <<cfgVars, idx, results, ret, history, procs, fs, storeFaults>>

----------------------------------------------------------------------------
\* shell_exec

\* The command shell_exec is given.
ShellCommand == IF IsStr(plan) THEN plan.value ELSE CurParams.command

\* shell_exec without its gate.
shell_ungated == TRUE

\* The gate at the head of shell_exec.
shell_enabled == get_bool("enable_shell", FALSE)

\* The timeout branch without proc.kill(): the subprocess is left as it is.
abandon(p) == p

\* proc.kill()
kill(p) == [p EXCEPT !.state = "killed"]

\* The gate is closed: the error dict is returned, nothing is spawned.
ShellDisabled ==
  /\ pc = "shell" /\ ~shell_enabled
  /\ ShellReturns([error |-> <<"shell execution disabled">>])
  /\ UNCHANGED <<cfgVars, idx, results, history, procs, fs, calls, storeFaults>>

\* create_subprocess_shell(command)
ShellSpawn ==
  /\ pc = "shell" /\ shell_enabled
  /\ procs' = Append(procs, Proc("shell", ShellCommand, "running"))
  /\ pc' = "shell_wait"
  /\ UNCHANGED <<cfgVars, idx, results, ret, hres, history, fs, calls, outcomes, storeFaults>>

\* communicate() ends within the timeout.
ShellExit ==
  /\ pc = "shell_wait"
  /\ \E rc \in ReturnCodes :
       /\ procs' = [procs EXCEPT ![Len(procs)].state = "exited"]
       /\ ShellReturns([returncode |-> rc])
  /\ UNCHANGED <<cfgVars, idx, results, history, fs, calls, storeFaults>>

\* wait_for raises TimeoutError: the subprocess is killed.
ShellTimeout ==
  /\ pc = "shell_wait"
  /\ procs' = [procs EXCEPT ![Len(procs)] = kill(@)]
  /\ ShellReturns([error |-> <<"timeout">>])
  /\ UNCHANGED <<cfgVars, idx, results, history, fs, calls, storeFaults>>

----------------------------------------------------------------------------
\* _execute_single_action, after the handler: the try body's store_command
\* and return, and the except clause.  A store_command call is cur.execute
\* of the INSERT followed by conn.commit(): it inserts its row, or raises
\* sqlite3.Error from the INSERT (no row), or raises it from the commit
\* (database locked by another connection).  A failed commit leaves the
\* transaction open: the row stays in the table as this connection reads
\* it, and the next commit that succeeds makes it durable with its own.

StoreSuccess ==
  /\ pc = "store"
  /\ \/ /\ history' = Append(history, Inserted(store_command(Str(CurAction), Str(hres.value), TRUE),
                                              Len(history) + 1, clock))
        /\ results' = Append(results, SuccessResult(hres.value))
        /\ idx' = idx + 1
        /\ hres' = NoOutcome
        /\ pc' = "loop"
        /\ UNCHANGED storeFaults
     \/ /\ storeFaults' = storeFaults + 1
        /\ hres' = Raised("sqlite3.Error")
        /\ pc' = "except"
        /\ UNCHANGED <<history, results, idx>>
     \/ /\ history' = Append(history, Inserted(store_command(Str(CurAction), Str(hres.value), TRUE),
                                              Len(history) + 1, clock))
        /\ storeFaults' = storeFaults + 1
        /\ hres' = Raised("sqlite3.Error")
        /\ pc' = "except"
        /\ UNCHANGED <<results, idx>>
  /\ UNCHANGED <<cfgVars, ret, procs, fs, calls, outcomes>>

StoreFailure ==
  /\ pc = "except"
  /\ \/ /\ history' = Append(history, Inserted(store_command(Str(CurAction), Str(hres.value), FALSE),
                                              Len(history) + 1, clock))
        /\ results' = Append(results, FailureResult(hres.value))
        /\ idx' = idx + 1
        /\ hres' = NoOutcome
        /\ pc' = "loop"
        /\ UNCHANGED <<ret, storeFaults>>
     \/ /\ storeFaults' = storeFaults + 1
        /\ ret' = [kind |-> "raise", exc |-> [exc |-> "sqlite3.Error"]]
        /\ pc' = "done"
        /\ UNCHANGED <<history, results, idx, hres>>
     \/ /\ history' = Append(history, Inserted(store_command(Str(CurAction), Str(hres.value), FALSE),
                                              Len(history) + 1, clock))
        /\ storeFaults' = storeFaults + 1
        /\ ret' = [kind |-> "raise", exc |-> [exc |-> "sqlite3.Error"]]
        /\ pc' = "done"
        /\ UNCHANGED <<results, idx, hres>>
  /\ UNCHANGED <<cfgVars, procs, fs, calls, outcomes>>

----------------------------------------------------------------------------

Next ==
  \/ PlanString
  \/ PlanInvalid
  \/ PlanLoop
  \/ ReturnResults
  \/ UnknownAction
  \/ KeyboardInput
  \/ MouseAction
  \/ HyprctlCommand
  \/ WindowControl
  \/ TakeScreenshot
  \/ FileOperation
  \/ SubprocessHangs
  \/ ShellAction
  \/ ShellDisabled
  \/ ShellSpawn
  \/ ShellExit
  \/ ShellTimeout
  \/ StoreSuccess
  \/ StoreFailure

Spec == Init /\ [][Next]_vars

\* The event loop runs the coroutine whenever it can take a step; a shell
\* subprocess under wait_for ends or is timed out.  Nothing makes a tool
\* started by subprocess.run exit.
SpecLive == Init /\ [][Next]_vars /\ WF_vars(Next)

----------------------------------------------------------------------------
\* The orchestrator and the reasoning gateway: HyprAIDaemon.process_user_query
\* and GeminiClient.process_query.

\* Requests served in a behaviour.
MaxRequests == 2

\* How the generate_content call and the reading of response.text end: an
\* exception, a text without a JSON object in it (or with one that does not
\* parse), a text whose outermost braces hold a JSON object.
UpstreamOutcomes == {"error", "text", "json"}

\* JSON objects the reasoning service may answer with.
JsonPlans ==
  { [kind |-> "dict", explanation |-> "no plan"],
    [kind |-> "dict", actions |-> <<[type |-> "shell", params |-> [command |-> "ls"]]>>] }

\* What process_query returns: the parsed object as it is, the text wrapped
\* as one response action, or on an exception a plan with no actions.
process_query(outcome, parsed) ==
  CASE outcome = "json"  -> parsed
    [] outcome = "text"  -> [kind |-> "dict",
                             actions |-> <<[type |-> "response", params |-> [text |-> "hello"]]>>,
                             explanation |-> "hello"]
    [] outcome = "error" -> [kind |-> "dict",
                             actions |-> <<>>,
                             explanation |-> "Error: upstream"]

\* process_user_query without its except clause: the exception leaves it.
reraise(e) == [raised |-> TRUE, value |-> e]

\* except Exception as e: return {'success': False, 'error': str(e)}
on_exception(e) == Returned([success |-> FALSE, error |-> Str(e)])

\* process_user_query is over with `result`.
Finish(result) ==
  /\ qres' = result
  /\ qpc' = "idle"
  /\ served' = served + 1

\* A request arrives: the frames of the request before are gone, and
\* build_full_context(include_screenshot) is awaited.
QueryCall ==
  /\ qpc = "idle" /\ running /\ served < MaxRequests
  /\ \E s \in BOOLEAN : BuildEnter(s)
  /\ qpc' = "build"
  /\ qres' = NotReturned
  /\ response' = NotReturned
  /\ upstream' = "none"
  /\ plan' = [kind |-> "None"]
  /\ pc' = "idle"
  /\ idx' = 0
  /\ results' = <<>>
  /\ ret' = NotReturned
  /\ hres' = NoOutcome
  /\ procs' = <<>>
  /\ calls' = <<>>
  /\ outcomes' = <<>>
  /\ storeFaults' = 0
  /\ UNCHANGED <<config, tools, history, fs, storeVars, system_state, desktop,
                 tailVars, running, served, conversations, restVars>>

\* context = await self.context.build_full_context(...): the snapshot, or
\* the builder's exception caught by the except clause.
QueryBuilt ==
  /\ qpc = "build" /\ bpc = "done"
  /\ IF bret.raised
     THEN /\ Finish(on_exception(bret.value))
          /\ bctx' = EmptyDict
     ELSE /\ qpc' = "gemini"
          /\ bctx' = bret.value
          /\ UNCHANGED <<qres, served>>
  /\ bpc' = "idle"
  /\ bret' = NotReturned
  /\ upd' = [upd EXCEPT !["build"] = IdleUpdate]
  /\ UNCHANGED <<dispVars, storeVars, system_state, desktop, include_screenshot,
                 tailVars, running, response, upstream, conversations, restVars>>

\* response = await self.gemini.process_query(query, context, include_screenshot)
GeminiProcess ==
  /\ qpc = "gemini"
  /\ \E o \in UpstreamOutcomes, parsed \in JsonPlans :
       /\ upstream' = o
       /\ response' = Returned(process_query(o, parsed))
  /\ qpc' = "execute"
  /\ UNCHANGED <<dispVars, storeVars, snapVars, tailVars, running, qres, served,
                 conversations, restVars>>

\* results = await self.dispatcher.execute_action_plan(response): the call.
QueryExecute ==
  /\ qpc = "execute"
  /\ plan' = response.value
  /\ pc' = "call"
  /\ qpc' = "executing"
  /\ UNCHANGED <<config, tools, idx, results, ret, hres, history, procs, fs, calls,
                 outcomes, storeFaults, storeVars, snapVars, tailVars, running,
                 response, upstream, qres, served, conversations, restVars>>

\* execute_action_plan is over: its value, or its exception caught by the
\* except clause.
QueryExecuted ==
  /\ qpc = "executing" /\ pc = "done"
  /\ IF ret.kind = "raise"
     THEN Finish(on_exception(ret.exc))
     ELSE qpc' = "store" /\ UNCHANGED <<qres, served>>
  /\ UNCHANGED <<dispVars, storeVars, snapVars, tailVars, running, response,
                 upstream, conversations, restVars>>

\* The row store_conversation inserts: str(ai_response), json.dumps(context).
Conversation(user_msg, ai_response, context) ==
  [user_message |-> user_msg, ai_response |-> Str(ai_response), context |-> [dumps |-> context]]

\* await self.context.store_conversation(query, response, results) and the
\* success record, or the INSERT's exception caught by the except clause.
StoreConversation ==
  /\ qpc = "store"
  /\ \/ /\ conversations' = Append(conversations,
                                   Inserted(Conversation("q", response.value, ret.value),
                                            Len(conversations) + 1, clock))
        /\ Finish(Returned([success |-> TRUE,
                            response |-> response.value,
                            actions_executed |-> ret.value]))
     \/ /\ Finish(on_exception([exc |-> "sqlite3.Error"]))
        /\ UNCHANGED conversations
  /\ UNCHANGED <<dispVars, storeVars, snapVars, tailVars, running, response, upstream, restVars>>

\* The daemon started, no request yet.
QueryInit ==
  /\ config \in [enable_shell : {"true", "unset"}, enable_file_ops : {"false"}]
  /\ tools \in ToolSets
  /\ DispatcherIdle
  /\ StoreAtRest
  /\ SnapAtRest
  /\ TailAtRest
  /\ QueryAtRest
  /\ RestAtRest

QueryNext ==
  \/ QueryCall
  \/ UpdateSystemState
  \/ BuildUpdated
  \/ BuildRecent
  \/ BuildScreenshot
  \/ BuildReturn
  \/ QueryBuilt
  \/ GeminiProcess
  \/ QueryExecute
  \/ PlanInvalid
  \/ PlanLoop
  \/ ReturnResults
  \/ UnknownAction
  \/ ShellAction
  \/ ShellDisabled
  \/ ShellSpawn
  \/ ShellExit
  \/ ShellTimeout
  \/ StoreSuccess
  \/ StoreFailure
  \/ QueryExecuted
  \/ StoreConversation

SpecQuery == QueryInit /\ [][QueryNext]_vars

----------------------------------------------------------------------------
\* Two requests on the web server's event loop, each calling
\* execute_action_plan on the one dispatcher.  A coroutine keeps the loop
\* until it awaits something that is not ready: in execute_action_plan that
\* is the subprocess of shell_exec only; the other handlers and
\* store_command never suspend.  What the calls compute is Spec's matter;
\* here is their order.

\* Actions of the concurrent plans: one that suspends when the shell flag is
\* on, one that never suspends, one without handler.
ConcActions ==
  { [type |-> "shell",    params |-> [command |-> "ls"]],
    [type |-> "keyboard", params |-> [keys |-> "super+q"]],
    [type |-> "bogus"] }

ConcPlans == UNION { [1..n -> ConcActions] : n \in 1..MaxPlanLen }

\* An entry of the log: request r invoked a handler or accessed the store
\* for its action i.
Entry(r, what, i) == [req |-> r, what |-> what, idx |-> i]

\* The action request r is at.
ActionOf(r) == flight[r].plan[flight[r].idx]

\* What a step of a request leaves alone.
ConcFrame == UNCHANGED <<dispVars, storeVars, snapVars, tailVars, queryVars, origin, stopVars>>

\* The /api/query handler of request r gets the loop and, through
\* process_user_query, calls execute_action_plan; the loop starts.
ConcCall(r) ==
  /\ turn = 0 /\ flight[r].pc = "idle"
  /\ ConcFrame
  /\ \E p \in ConcPlans : flight' = [flight EXCEPT ![r] = [pc |-> "loop", idx |-> 1, plan |-> p]]
  /\ turn' = r
  /\ UNCHANGED log

\* _execute_single_action up to the handler: no handler for the type, a
\* handler that runs to its end, or shell_exec awaiting its subprocess,
\* which hands the loop to whoever is ready.
ConcInvoke(r) ==
  /\ turn = r /\ flight[r].pc = "loop" /\ flight[r].idx <= Len(flight[r].plan)
  /\ ConcFrame
  /\ IF ActionOf(r).type \notin Handlers
     THEN /\ flight' = [flight EXCEPT ![r].idx = @ + 1]
          /\ UNCHANGED <<log, turn>>
     ELSE /\ log' = Append(log, Entry(r, "handler", flight[r].idx))
          /\ IF ActionOf(r).type = "shell" /\ shell_enabled
             THEN /\ flight' = [flight EXCEPT ![r].pc = "shell_wait"]
                  /\ turn' = 0
             ELSE /\ flight' = [flight EXCEPT ![r].pc = "store"]
                  /\ UNCHANGED turn

\* The subprocess has ended or timed out and the loop is free: shell_exec
\* resumes and returns.
ConcShellDone(r) ==
  /\ turn = 0 /\ flight[r].pc = "shell_wait"
  /\ ConcFrame
  /\ flight' = [flight EXCEPT ![r].pc = "store"]
  /\ turn' = r
  /\ UNCHANGED log

\* store_command for the action, its result appended, on to the next.
ConcStore(r) ==
  /\ turn = r /\ flight[r].pc = "store"
  /\ ConcFrame
  /\ log' = Append(log, Entry(r, "store", flight[r].idx))
  /\ flight' = [flight EXCEPT ![r].pc = "loop", ![r].idx = @ + 1]
  /\ UNCHANGED turn

\* return results: the call is over and the request's task ends.
ConcReturn(r) ==
  /\ turn = r /\ flight[r].pc = "loop" /\ flight[r].idx > Len(flight[r].plan)
  /\ ConcFrame
  /\ flight' = [flight EXCEPT ![r].pc = "done"]
  /\ turn' = 0
  /\ UNCHANGED log

ConcInit ==
  /\ config \in [enable_shell : {"true", "unset"}, enable_file_ops : {"false"}]
  /\ tools = {"wtype", "wlrctl", "grim", "hyprctl"}
  /\ DispatcherIdle
  /\ StoreAtRest
  /\ SnapAtRest
  /\ TailAtRest
  /\ QueryAtRest
  /\ RestAtRest

ConcNext ==
  \E r \in Requests :
    \/ ConcCall(r)
    \/ ConcInvoke(r)
    \/ ConcShellDone(r)
    \/ ConcStore(r)
    \/ ConcReturn(r)

SpecConc == ConcInit /\ [][ConcNext]_vars

----------------------------------------------------------------------------
\* Vocabulary of the properties.

Range(f) == { f[i] : i \in DOMAIN f }

Done == pc = "done"

\* The plan is neither a string nor a mapping with an "actions" entry.
MalformedPlan == plan.kind # "str" /\ ~(plan.kind = "dict" /\ "actions" \in DOMAIN plan)

\* The plan is a mapping with an "actions" entry.
WellFormedPlan == plan.kind = "dict" /\ "actions" \in DOMAIN plan

\* Type of the i-th action of a well-formed plan.
TypeAt(i) == Get(plan.actions[i], "type", "None")

\* The shell capability flag is on.
ShellFlagOn == config.enable_shell = "true"

\* The handler of action i was invoked.
Invoked(i) == \E c \in Range(calls) : c.idx = i

\* What the handler call of action i came to (there is at most one).
OutcomeAt(i) == (CHOOSE o \in Range(outcomes) : o.idx = i).out
HasOutcome(i) == \E o \in Range(outcomes) : o.idx = i

\* A handler outcome that is a failure: an exception, or an error dict.
HandlerFailed(o) == o.raised \/ "error" \in DOMAIN o.value

\* The dict shell_exec returns when its gate is closed.
DisabledError == [error |-> <<"shell execution disabled">>]

\* Subprocesses started by shell_exec.
ShellProcs == { i \in DOMAIN procs : procs[i].via = "shell" }

----------------------------------------------------------------------------
\* C2.  A plan that is neither a string nor a mapping with "actions": from
\* call to return no handler is invoked, no subprocess is started, no
\* command-history row is written and no per-action result is produced, and
\* the call returns the one plan-level error dict.
C2_MalformedPlanRejected ==
  MalformedPlan =>
    /\ calls = <<>>
    /\ outcomes = <<>>
    /\ procs = <<>>
    /\ history = <<>>
    /\ results = <<>>
    /\ pc \in {"call", "done"}
    /\ Done => ret = [kind |-> "dict", value |-> [error |-> <<"invalid plan format">>]]

\* A malformed plan has been refused.
C2_Witness == MalformedPlan /\ Done /\ ret.kind = "dict"

----------------------------------------------------------------------------
\* C1.  When the call on a well-formed plan of N actions is over, it has
\* returned a list of exactly N results, the i-th being the outcome of the
\* i-th action: the unknown-type error for a type without handler, otherwise
\* a result with a success flag that, when set, carries what the handler of
\* action i returned.
C1_ExactlyNResults ==
  (WellFormedPlan /\ Done) =>
    /\ ret.kind = "list"
    /\ Len(ret.value) = Len(plan.actions)
    /\ \A i \in 1..Len(plan.actions) :
         IF TypeAt(i) \notin Handlers
           THEN ret.value[i] = UnknownTypeResult(TypeAt(i))
           ELSE /\ "success" \in DOMAIN ret.value[i]
                /\ HasOutcome(i)
                /\ ret.value[i].success => ret.value[i].result = OutcomeAt(i).value

----------------------------------------------------------------------------
\* C3.  The result of an action whose type has no handler carries
\* success = FALSE and the unknown-action-type error, no handler is invoked
\* for it, and the loop goes on to the actions after it.
C3_UnknownTypeYieldsFailure ==
  WellFormedPlan =>
    \A i \in 1..Len(results) :
      TypeAt(i) \notin Handlers =>
        /\ "success" \in DOMAIN results[i]
        /\ results[i].success = FALSE
        /\ results[i].error = <<"unknown action type: ", TypeAt(i)>>
        /\ ~Invoked(i)
        /\ idx > i

----------------------------------------------------------------------------
\* C4.  The result of an action of type "response" is a success that carries
\* the action's text payload, and no handler is invoked for it.
C4_ResponseIsNoOp ==
  WellFormedPlan =>
    \A i \in 1..Len(results) :
      TypeAt(i) = "response" =>
        /\ ~Invoked(i)
        /\ "success" \in DOMAIN results[i]
        /\ results[i].success = TRUE
        /\ results[i].result = plan.actions[i].params

----------------------------------------------------------------------------
----------------------------------------------------------------------------
\* C6.  For every action of a known type: a failed handler (exception or
\* error dict) gives a result with success = FALSE and an error, and a
\* result with success = TRUE and a result comes from a handler that did not
\* fail.
C6_FailureIsReported ==
  WellFormedPlan =>
    \A i \in 1..Len(results) :
      TypeAt(i) \in Handlers =>
        /\ HandlerFailed(OutcomeAt(i)) =>
             (results[i].success = FALSE /\ "error" \in DOMAIN results[i])
        /\ results[i].success = TRUE =>
             (~HandlerFailed(OutcomeAt(i)) /\ "result" \in DOMAIN results[i])

----------------------------------------------------------------------------
\* C7.  When the call on a well-formed plan of N actions is over and no
\* history write failed, the command history holds exactly N new rows, the
\* i-th describing the i-th action.
C7_HistoryGrowsByN ==
  (WellFormedPlan /\ Done /\ storeFaults = 0) =>
    /\ Len(history) = Len(plan.actions)
    /\ \A i \in 1..Len(plan.actions) : history[i].command = Str(plan.actions[i])

----------------------------------------------------------------------------
\* C8.  A failed history write does not leave execute_action_plan as an
\* exception, an action whose handler returned is reported success = TRUE
\* all the same, and the loop goes on to the end of the plan.
C8_StoreFailureIsHarmless ==
  WellFormedPlan =>
    /\ ret.kind # "raise"
    /\ \A i \in 1..Len(results) :
         (TypeAt(i) \in Handlers /\ ~OutcomeAt(i).raised) => results[i].success = TRUE
    /\ Done => Len(results) = Len(plan.actions)

----------------------------------------------------------------------------
\* C9.  A string plan is one call of shell_exec on that string: at most one
\* handler call, a shell call; a subprocess exists only with the shell flag
\* on and then runs the string; with the flag off the call returns the
\* one-element list holding the disabled-capability error.
C9_StringPlanIsGatedShell ==
  plan.kind = "str" =>
    /\ Len(calls) <= 1
    /\ \A c \in Range(calls) : c.type = "shell"
    /\ Len(procs) <= 1
    /\ \A i \in DOMAIN procs : ShellFlagOn /\ procs[i].via = "shell" /\ procs[i].cmd = plan.value
    /\ Done => (ret.kind = "list" /\ Len(ret.value) = 1)
    /\ (Done /\ ~ShellFlagOn) => ret.value[1] = DisabledError

\* A string plan came back refused, nothing having run.
C9_Witness ==
  /\ plan.kind = "str"
  /\ ~ShellFlagOn
  /\ Done
  /\ ret = [kind |-> "list", value |-> <<DisabledError>>]
  /\ procs = <<>>

----------------------------------------------------------------------------
\* C10.  With the file-operations flag off, no file is created or changed
\* and every file action whose handler was invoked came back failed.
C10_FileGate ==
  config.enable_file_ops = "false" =>
    /\ \A p \in Paths : fs[p] = NoFile
    /\ \A c \in Range(calls) :
         (c.type = "file" /\ HasOutcome(c.idx)) => HandlerFailed(OutcomeAt(c.idx))

----------------------------------------------------------------------------
\* C11.  A subprocess of shell_exec is running only while shell_exec waits
\* for it: once a shell action has come back, with the timeout error or
\* otherwise, its subprocess is not running, and every timeout error
\* returned has its killed subprocess.
TimeoutError == [error |-> <<"timeout">>]

TimedOut == { k \in DOMAIN outcomes : outcomes[k].out = Returned(TimeoutError) }

C11_TimeoutKillsSubprocess ==
  /\ \A i \in ShellProcs :
       procs[i].state = "running" => (pc = "shell_wait" /\ i = Len(procs))
  /\ Cardinality(TimedOut) = Cardinality({ i \in ShellProcs : procs[i].state = "killed" })

\* A shell action of a plan timed out and has returned.
C11_Witness ==
  /\ WellFormedPlan
  /\ TimedOut # {}
  /\ pc = "store"
  /\ procs[Len(procs)].state = "killed"

----------------------------------------------------------------------------
\* C20.  Handlers are called in plan order, one at a time: when the handler
\* of an action is called, every earlier action with a handler has its
\* outcome; and when the call is over every action of the plan has been
\* attempted (its handler call made, or its unknown type refused).
Attempted(i) == HasOutcome(i) \/ (TypeAt(i) \notin Handlers /\ i <= Len(results))

C20_SequentialAndComplete ==
  WellFormedPlan =>
    /\ \A k \in DOMAIN calls :
         \A j \in 1..(calls[k].idx - 1) : TypeAt(j) \in Handlers => HasOutcome(j)
    /\ \A k \in 1..(Len(calls) - 1) : calls[k].idx < calls[k + 1].idx
    /\ Done => \A i \in 1..Len(plan.actions) : Attempted(i)

----------------------------------------------------------------------------
\* C14.  A _get_recent_commands(k) call made with no store_command since
\* returns at most k rows, the rows appended last, the latest first: its
\* first row is the row the latest store_command appended.
C14_RecentIsLatestFirst ==
  (recent.asked /\ recent.hlen = Len(history)) =>
    /\ Len(recent.rows) <= recent.limit
    /\ \A j \in 1..Len(recent.rows) :
         recent.rows[j] = RecentRow(history[Len(history) + 1 - j])

----------------------------------------------------------------------------
\* The snapshot builder's claims, under SpecSnap.

\* The fields a running or finished _update_system_state call has queried.
Queried(c) == DOMAIN upd[c].seen

\* The sub-query of `field` failed, timed out or printed nothing.
QueryFailed(c, field) == upd[c].seen[field].outcome # "ok"

\* The call of caller c has passed all three try blocks.
AllQueried(c) == which("hyprctl") /\ upd[c].pc \in {"upsert", "returned", "raised", "idle"} /\ Queried(c) # {}

\* C12: during a snapshot build, whichever of the three sub-queries
\* (monitors, active window, clients) fail or time out, each failing field
\* holds its empty default and every other field holds what its own query
\* reported; no failure touches another field.  This holds of the dict
\* while it is built and of the snapshot build_full_context returns.
C12_PartialSuccess ==
  /\ \A c \in Callers :
       /\ DOMAIN upd[c].state = Queried(c)
       /\ AllQueried(c) => Queried(c) = Fields
       /\ \A f \in Queried(c) :
            upd[c].state[f] = IF QueryFailed(c, f)
                              THEN Default(f)
                              ELSE Reported(f, upd[c].seen[f].gen)
  /\ (bpc = "done" /\ ~bret.raised) => bret.value.system_state = upd["build"].state

\* C12 witness: a build returned a snapshot after a failing first query and
\* a good last one.
C12_Witness ==
  /\ bpc = "done"
  /\ ~bret.raised
  /\ Queried("build") = Fields
  /\ QueryFailed("build", "monitors")
  /\ ~QueryFailed("build", "clients")
  /\ bret.value.system_state["clients"] = Reported("clients", 1)

\* C13: build_full_context never raises to its caller, whatever fails
\* (collaborator missing, sub-queries, capture, store write), and with
\* hyprctl entirely unavailable the returned snapshot still has monitors,
\* active window and clients, each at its empty default.
C13_BuilderNeverRaises ==
  bpc = "done" =>
    /\ ~bret.raised
    /\ ~which("hyprctl") =>
         \A f \in Fields :
           /\ f \in DOMAIN bret.value.system_state
           /\ bret.value.system_state[f] = Default(f)

----------------------------------------------------------------------------
\* The event tailer's claims, under SpecTail and SpecTailFair.

\* A step that makes a connection attempt.
ConnectionAttempt == tpc = "connect" /\ tpc' # "connect"

\* C15: whenever the tailer leaves streaming or connecting (end of stream,
\* read error, connect error) it waits the backoff before it connects
\* again: every connection attempt but the first comes after a backoff wait
\* made since the attempt before.
C15_BackoffBetweenAttempts == [][(ConnectionAttempt /\ conns > 0) => waited]_vars

\* The tailer is in its except clause, after any failure.
Failed == tpc = "backoff"

\* C16: with a session identifier the tailer never terminates or gives up;
\* after every failure (end of stream, read error, connect error, failing
\* handler) it gets to another connection attempt, and the daemon keeps
\* running.
C16_NeverGivesUp ==
  /\ signature => [](tpc \notin {"disabled", "exit"})
  /\ [](running)
  /\ Failed ~> (tpc = "connect")
  /\ (tpc = "connect") ~> (tpc \in {"read", "backoff"})

\* C16 witness: after a rebuild and a later failure the tailer has slept
\* and stands before its next connection attempt.
C16_Witness ==
  /\ signature
  /\ conns = 2
  /\ waited
  /\ tpc = "connect"
  /\ system_state # NoRow

\* C17: without a session identifier the tailer stays disconnected for
\* good: one warning, no connection attempt ever, no snapshot rebuild.
C17_DisabledWithoutSignature ==
  ~signature =>
    /\ tpc \in {"start", "disabled"}
    /\ warned = (IF tpc = "disabled" THEN 1 ELSE 0)
    /\ conns = 0
    /\ upd["tailer"] = IdleUpdate
    /\ system_state = NoRow

\* C17 witness: monitor_events has returned after its warning.
C17_Witness == ~signature /\ tpc = "disabled" /\ warned = 1

----------------------------------------------------------------------------
\* The gateway's and the orchestrator's claims, under SpecQuery.

\* process_query has returned for the request in progress.
GatewayReturned == qpc \in {"execute", "executing", "store"} /\ ~response.raised

\* C18: whenever the reasoning service call fails, process_query returns a
\* well-formed plan with exactly one action, of type 'response' with a text
\* parameter; the dispatcher gets neither a fault nor a plan without actions.
C18_FailureYieldsOneResponse ==
  (GatewayReturned /\ upstream = "error") =>
    /\ HasActions(response.value)
    /\ Len(response.value.actions) = 1
    /\ response.value.actions[1].type = "response"
    /\ "text" \in DOMAIN response.value.actions[1].params

\* A request is over.
Served == qpc = "idle" /\ served > 0

\* C19: process_user_query gives every request a record with a success
\* flag and never raises, whatever fails in snapshot build, reasoning, plan
\* execution or conversation persistence; afterwards the daemon is still
\* running and takes the next request.
C19_AlwaysStructuredResult ==
  /\ running
  /\ Served =>
       /\ ~qres.raised
       /\ "success" \in DOMAIN qres.value
       /\ qres.value.success \in BOOLEAN
       /\ ~qres.value.success => "error" \in DOMAIN qres.value
  /\ (qpc = "idle" /\ served < MaxRequests) => ENABLED QueryCall

\* C19 witness: a request that failed (it stored no conversation) was
\* followed by one that succeeded after an exception-free plan execution.
C19_Witness ==
  /\ Served
  /\ served = 2
  /\ Len(conversations) = 1
  /\ qres.value.success
  /\ Len(history) > 0

----------------------------------------------------------------------------
\* The agreement of results and history, under Spec.

\* Action i occurs once in the plan, so that a history row with its text is
\* a row about it.
OccursOnce(i) == \A j \in 1..Len(plan.actions) : plan.actions[j] = plan.actions[i] => j = i

\* The history rows written for action i.
RowsOf(i) == { k \in DOMAIN history : history[k].command = Str(plan.actions[i]) }

\* C26: for every action with both a result and a history row, the row's
\* success flag is the result's success flag, also when the first history
\* write failed after the handler had succeeded.
C26_HistoryAgreesWithResult ==
  WellFormedPlan =>
    \A i \in 1..Len(results) :
      (TypeAt(i) \in Handlers /\ OccursOnce(i)) =>
        \A k \in RowsOf(i) : (history[k].success = 1) = results[i].success

----------------------------------------------------------------------------
\* Termination of a plan, under SpecLive.

\* C22: every subprocess-backed handler runs its subprocess under a
\* timeout, so execute_action_plan on a finite plan comes to its end even
\* if a tool never exits, and no subprocess is left running without a
\* timeout that will kill it.
C22_PlanExecutionTerminates ==
  /\ <>Done
  /\ [](\A i \in DOMAIN procs : procs[i].state = "running" => procs[i].via = "shell")

----------------------------------------------------------------------------
\* Racing rebuilds, under SpecRace.

\* The document stored under "current_state".
StoredSnapshot == system_state.value.dumps

\* A call of caller c is between its first query and its return.
InProgress(c) == upd[c].pc \in {"active_window", "clients", "upsert"}

\* C24: when a tailer-triggered rebuild races a request-triggered one, the
\* stored snapshot is never torn: in every state its monitors, active-window
\* and clients fields were all supplied by one and the same rebuild call,
\* and it is complete.
C24_StoredSnapshotNotTorn ==
  system_state.stored =>
    /\ DOMAIN StoredSnapshot = Fields
    /\ DOMAIN origin = Fields
    /\ \E c \in Callers : \A f \in Fields : origin[f] = c

\* C24 witness: the tailer's rebuild stored its snapshot while the
\* request's rebuild, begun before, was still querying; the request's then
\* replaced it.
C24_Witness ==
  /\ system_state.stored
  /\ origin["monitors"] = "build"
  /\ InProgress("tailer")
  /\ upd["tailer"].seen["monitors"].outcome # upd["build"].seen["monitors"].outcome
  /\ upd["build"].pc = "returned"

----------------------------------------------------------------------------
\* Which events rebuild, under SpecTail.

\* _handle_event is over with the line in hand.
Handled == tpc = "handle" /\ tpc' # "handle"

\* The line in hand is of a type in the filtered set.
Filtered == event.sep /\ event.head \in RebuildEvents

\* C23: the tailer triggers a rebuild for exactly the events of type
\* activewindow, workspace, focusedmon, one rebuild for each; any other
\* line causes no rebuild and no store write; and the rebuild is triggered
\* asynchronously: having handled a line the tailer is reading again,
\* whether or not a rebuild is in progress.
C23_FilteredEventsRebuildAsync ==
  [][ /\ Handled => ((upd'["tailer"].pc = "start") <=> Filtered)
      /\ Handled => tpc' = "read"
      /\ system_state' # system_state => (tpc = "rebuild" /\ upd["tailer"].pc = "upsert")
    ]_vars

----------------------------------------------------------------------------
\* Shutdown, under SpecStop.

\* shutdown has returned or raised.
ShutdownOver == spc \in {"done", "raised"}

\* The tailer's task has ended.
TailerStopped == tpc \in {"off", "disabled", "exit"}

\* C25: shutdown stops the tailer, awaits its exit and only then closes the
\* store: the store is never closed while the tailer runs, when shutdown is
\* over the tailer has stopped and the store is closed, and no store write
\* follows the release of the handle.
C25_ShutdownOrder ==
  /\ closed => TailerStopped
  /\ ShutdownOver => (spc = "done" /\ TailerStopped /\ closed)
  /\ closed => upd["tailer"].pc \notin {"upsert"}

----------------------------------------------------------------------------
\* Concurrent requests, under SpecConc.

\* Request r is inside execute_action_plan.
InFlight(r) == flight[r].pc \in {"loop", "shell_wait", "store"}

\* C21: at most one execute_action_plan call is in flight on the dispatcher
\* at any time, and the handler invocations and store accesses of one plan
\* are never interleaved with those of another.
C21_OneCallInFlight ==
  /\ Cardinality({ r \in Requests : InFlight(r) }) <= 1
  /\ \A i, j, k \in DOMAIN log :
       (i < j /\ j < k /\ log[i].req = log[k].req) => log[j].req = log[i].req

====
